---- MODULE Spec2Model ----
(***************************************************************************)
(* A model of lighting.py (pygame-shadows): Light, LightBox and Wall.      *)
(*                                                                         *)
(* Conventions                                                             *)
(*  - a point [x, y] is the tuple <<x, y>>; Python's p[0], p[1] are p[1],  *)
(*    p[2] here, so source[self.vertical] is source[vertical + 1];         *)
(*  - a Python dict is a sequence of <<key, value>> pairs in insertion     *)
(*    order (dicts iterate in insertion order);                            *)
(*  - str(int) is TLC's ToString, so ids and dict keys are the strings the *)
(*    program builds;                                                      *)
(*  - a float is an exact rational <<n, d>> in lowest terms with d > 0;    *)
(*  - a pygame.Surface is its size and the log of the operations applied   *)
(*    to it (fills by multiplication, polygons, blits): pygame itself is   *)
(*    outside the repository.                                              *)
(***************************************************************************)
EXTENDS Integers, Sequences, FiniteSets, TLC

VARIABLES
    walls,            \* LightBox.walls
    chunk_walls,      \* LightBox.chunk_walls
    dynamic_walls,    \* LightBox.dynamic_walls
    dynamic_wall_id,  \* LightBox.dynamic_wall_id
    lights,           \* LightBox.lights
    light_id,         \* LightBox.light_id
    ret,              \* the last LightBox call: its arguments and what it returned or raised
    minted,           \* history: the ids add_light and add_dynamic_walls have returned, in order
    calls,            \* history: the number of LightBox calls made
    light,            \* a Light object on its own (SpecLight)
    wall,             \* a Wall object on its own (SpecWall)
    surf,             \* the target surface of Wall.draw_shadow (SpecWall)
    call              \* the last call of a Wall method or of generate_walls: its arguments
                      \* and its result (SpecWall, SpecGen)

vars == <<walls, chunk_walls, dynamic_walls, dynamic_wall_id, lights, light_id,
          ret, minted, calls, light, wall, surf, call>>
lbvars == <<walls, chunk_walls, dynamic_walls, dynamic_wall_id, lights, light_id, ret, minted,
           calls>>
wallvars == <<wall, surf, call>>

----------------------------------------------------------------------------
(* Arithmetic *)

Abs(n) == IF n < 0 THEN -n ELSE n
Min(a, b) == IF a < b THEN a ELSE b
Max(a, b) == IF a > b THEN a ELSE b

RECURSIVE Gcd(_, _)
Gcd(a, b) == IF b = 0 THEN a ELSE Gcd(b, a % b)

\* The rational n/d in lowest terms with a positive denominator.
Rat(n, d) ==
    LET s == IF d < 0 THEN -1 ELSE 1
        g == Gcd(Abs(n), Abs(d))
    IN  <<(s * n) \div g, (s * d) \div g>>
RInt(i) == <<i, 1>>
RAdd(a, b) == Rat(a[1] * b[2] + b[1] * a[2], a[2] * b[2])
RSub(a, b) == Rat(a[1] * b[2] - b[1] * a[2], a[2] * b[2])
RMul(a, b) == Rat(a[1] * b[1], a[2] * b[2])
RDiv(a, b) == Rat(a[1] * b[2], a[2] * b[1])
RAbs(a) == <<Abs(a[1]), a[2]>>
\* a < b, comparing the integer parts first so that the products stay small
RLess(a, b) ==
    LET fa == a[1] \div a[2]
        fb == b[1] \div b[2]
    IN  IF fa # fb THEN fa < fb
        ELSE (a[1] % a[2]) * b[2] < (b[1] % b[2]) * a[2]
RPoint(p) == <<RInt(p[1]), RInt(p[2])>>

----------------------------------------------------------------------------
(* pygame.Rect and pygame.Surface, as the program uses them *)

Rect(x, y, w, h) == [x |-> x, y |-> y, w |-> w, h |-> h]
left(r) == r.x
top(r) == r.y
right(r) == r.x + r.w
bottom(r) == r.y + r.h
topleft(r) == <<r.x, r.y>>
topright(r) == <<r.x + r.w, r.y>>
bottomleft(r) == <<r.x, r.y + r.h>>
bottomright(r) == <<r.x + r.w, r.y + r.h>>
colliderect(a, b) ==
    /\ a.w > 0 /\ a.h > 0 /\ b.w > 0 /\ b.h > 0
    /\ a.x < b.x + b.w /\ b.x < a.x + a.w
    /\ a.y < b.y + b.h /\ b.y < a.y + a.h
collidepoint(r, p) ==
    /\ r.x <= p[1] /\ p[1] < r.x + r.w
    /\ r.y <= p[2] /\ p[2] < r.y + r.h

Surface(size) == [size |-> size, ops |-> <<>>]
scale(s, size) == [s EXCEPT !.size = size]
polygon(s, color, points) ==
    [s EXCEPT !.ops = Append(@, [op |-> "polygon", color |-> color, points |-> points])]
blit(s, source, dest, flags) ==
    [s EXCEPT !.ops = Append(@, [op |-> "blit", source |-> source, dest |-> dest,
                                  flags |-> flags])]

WHITE == <<255, 255, 255>>
BLACK == <<0, 0, 0>>

----------------------------------------------------------------------------
(* class Wall *)

_create_rect(p1, p2) ==
    LET r_p1 == <<Min(p1[1], p2[1]), Min(p1[2], p2[2])>>
        r_p2 == <<Max(p1[1], p2[1]), Max(p1[2], p2[2])>>
    IN  Rect(r_p1[1], r_p1[2], r_p2[1] - r_p1[1] + 1, r_p2[2] - r_p1[2] + 1)

\* Wall.__init__: the rect is computed here and nowhere else
Wall(p1, p2, vertical, direction, color) ==
    [p1 |-> p1, p2 |-> p2, vertical |-> vertical, direction |-> direction,
     color |-> color, rect |-> _create_rect(p1, p2)]

\* a copy moved along x only
clone_move_x(w, offset) ==
    Wall(<<w.p1[1] + offset[1], w.p1[2]>>, <<w.p2[1] + offset[1], w.p2[2]>>,
         w.vertical, w.direction, w.color)

clone_move(w, offset) ==
    Wall(<<w.p1[1] + offset[1], w.p1[2] + offset[2]>>,
         <<w.p2[1] + offset[1], w.p2[2] + offset[2]>>,
         w.vertical, w.direction, w.color)

_check_cast_le(w, source) ==
    IF (source[w.vertical + 1] - w.p1[w.vertical + 1]) * w.direction <= 0 THEN 1 ELSE 0

_check_cast(w, source) ==
    IF (source[w.vertical + 1] - w.p1[w.vertical + 1]) * w.direction < 0 THEN 1 ELSE 0

\* the farther of the two collinear points
_determine_cast_endpoint_far(source, point, vision_box) ==
    LET difx == source[1] - point[1]
        dify == source[2] - point[2]
        slope0 == IF difx = 0 THEN <<999999, 1>> ELSE Rat(dify, difx)
        slope == IF slope0[1] = 0 THEN <<1, 1000000>> ELSE slope0
        cast_hside == IF difx < 0 THEN 1 ELSE 0
        cast_vside == IF dify < 0 THEN 1 ELSE 0
        hx == IF cast_hside = 1 THEN right(vision_box) ELSE left(vision_box)
        hwall_p == <<RInt(hx), RAdd(RMul(slope, RInt(hx - source[1])), RInt(source[2]))>>
        vy == IF cast_vside = 1 THEN bottom(vision_box) ELSE top(vision_box)
        vwall_p == <<RAdd(RDiv(RInt(vy - source[2]), slope), RInt(source[1])), RInt(vy)>>
        hdist == RAdd(RAbs(RSub(hwall_p[1], RInt(source[1]))),
                      RAbs(RSub(hwall_p[2], RInt(source[2]))))
        vdist == RAdd(RAbs(RSub(vwall_p[1], RInt(source[1]))),
                      RAbs(RSub(vwall_p[2], RInt(source[2]))))
    IN  IF RLess(vdist, hdist) THEN <<hwall_p, cast_hside + 2>>
        ELSE <<vwall_p, cast_vside>>

\* Returns <<point, side>>; the point's coordinates are rationals.
_determine_cast_endpoint(source, point, vision_box) ==
    LET difx == source[1] - point[1]
        dify == source[2] - point[2]
        slope0 == IF difx = 0 THEN <<999999, 1>> ELSE Rat(dify, difx)
        slope == IF slope0[1] = 0 THEN <<1, 1000000>> ELSE slope0
        cast_hside == IF difx < 0 THEN 1 ELSE 0
        cast_vside == IF dify < 0 THEN 1 ELSE 0
        hx == IF cast_hside = 1 THEN right(vision_box) ELSE left(vision_box)
        hwall_p == <<RInt(hx), RAdd(RMul(slope, RInt(hx - source[1])), RInt(source[2]))>>
        vy == IF cast_vside = 1 THEN bottom(vision_box) ELSE top(vision_box)
        vwall_p == <<RAdd(RDiv(RInt(vy - source[2]), slope), RInt(source[1])), RInt(vy)>>
        hdist == RAdd(RAbs(RSub(hwall_p[1], RInt(source[1]))),
                      RAbs(RSub(hwall_p[2], RInt(source[2]))))
        vdist == RAdd(RAbs(RSub(vwall_p[1], RInt(source[1]))),
                      RAbs(RSub(vwall_p[2], RInt(source[2]))))
    IN  IF RLess(hdist, vdist) THEN <<hwall_p, cast_hside + 2>>
        ELSE <<vwall_p, cast_vside>>

\* the table read with the sides in the order given
_get_intermediate_points_unsorted(w, p1_side, p2_side, vision_box) ==
    LET sides == <<p1_side, p2_side>>
    IN  CASE sides = <<0, 3>> -> <<topright(vision_box)>>
          [] sides = <<1, 3>> -> <<bottomright(vision_box)>>
          [] sides = <<1, 2>> -> <<bottomleft(vision_box)>>
          [] sides = <<0, 2>> -> <<topleft(vision_box)>>
          [] sides = <<0, 1>> ->
                IF w.direction = -1 THEN <<topleft(vision_box), bottomleft(vision_box)>>
                ELSE <<topright(vision_box), bottomright(vision_box)>>
          [] sides = <<2, 3>> ->
                IF w.direction = -1 THEN <<topleft(vision_box), topright(vision_box)>>
                ELSE <<bottomleft(vision_box), bottomright(vision_box)>>
          [] OTHER -> <<>>

\* 0 = top, 1 = bottom, 2 = left, 3 = right
_get_intermediate_points(w, p1_side, p2_side, vision_box) ==
    LET sides == <<Min(p1_side, p2_side), Max(p1_side, p2_side)>>
    IN  CASE sides = <<0, 3>> -> <<topright(vision_box)>>
          [] sides = <<1, 3>> -> <<bottomright(vision_box)>>
          [] sides = <<1, 2>> -> <<bottomleft(vision_box)>>
          [] sides = <<0, 2>> -> <<topleft(vision_box)>>
          [] sides = <<0, 1>> ->
                IF w.direction = -1 THEN <<topleft(vision_box), bottomleft(vision_box)>>
                ELSE <<topright(vision_box), bottomright(vision_box)>>
          [] sides = <<2, 3>> ->
                IF w.direction = -1 THEN <<topleft(vision_box), topright(vision_box)>>
                ELSE <<bottomleft(vision_box), bottomright(vision_box)>>
          [] OTHER -> <<>>

\* The vertex list of the shadow polygon before the offset is applied.
shadow_points(w, source, vision_box) ==
    LET c1 == _determine_cast_endpoint(source, w.p1, vision_box)
        c2 == _determine_cast_endpoint(source, w.p2, vision_box)
        inter == _get_intermediate_points(w, c1[2], c2[2], vision_box)
    IN  <<RPoint(w.p1)>> \o <<c1[1]>> \o [i \in 1..Len(inter) |-> RPoint(inter[i])]
          \o <<c2[1]>> \o <<RPoint(w.p2)>>

\* draw_shadow without the _check_cast test
draw_shadow_nocheck(w, s, source, vision_box, color, offset) ==
    LET points == shadow_points(w, source, vision_box)
    IN  polygon(s, color,
                [i \in 1..Len(points) |->
                   <<RSub(points[i][1], RInt(offset[1])),
                     RSub(points[i][2], RInt(offset[2]))>>])

\* The surface after the call.
draw_shadow(w, s, source, vision_box, color, offset) ==
    IF _check_cast(w, source) = 1
    THEN LET points == shadow_points(w, source, vision_box)
         IN  polygon(s, color,
                     [i \in 1..Len(points) |->
                        <<RSub(points[i][1], RInt(offset[1])),
                          RSub(points[i][2], RInt(offset[2]))>>])
    ELSE s

----------------------------------------------------------------------------
(* Module-level image helpers *)

\* surf.copy(), filled with the colour, blitted onto a copy with BLEND_RGBA_MULT:
\* the surface multiplied by the colour
mult_color(s, color) == [s EXCEPT !.ops = Append(@, [op |-> "mult", color |-> color])]

set_mask_alpha(s, alpha) == mult_color(s, <<alpha, alpha, alpha>>)

----------------------------------------------------------------------------
(* class Light *)

set_size(l, radius) ==
    [l EXCEPT !.radius = radius,
              !.light_img = scale(l._colored_light_img, <<radius * 2, radius * 2>>)]

_calculate_light_img(l) ==
    LET colored == mult_color(set_mask_alpha(l._base_light_img, l.alpha), l.color)
    IN  [l EXCEPT !._colored_light_img = colored, !.light_img = colored]

set_alpha(l, alpha) ==
    LET l1 == [l EXCEPT !.alpha = alpha,
                        !._colored_light_img = set_mask_alpha(l._base_light_img, alpha)]
    IN  set_size(l1, l1.radius)

set_color(l, color, override_alpha) ==
    LET l1 == [l EXCEPT !.color = color]
        l2 == IF override_alpha
              THEN [l1 EXCEPT !._colored_light_img = mult_color(l1._base_light_img, color)]
              ELSE _calculate_light_img(l1)
    IN  set_size(l2, l2.radius)

\* Light.__init__
Light(pos, radius, light_img, color, alpha) ==
    LET base == scale(light_img, <<radius * 2, radius * 2>>)
    IN  _calculate_light_img(
            [_base_position |-> pos, position |-> pos,
             _base_radius |-> radius, radius |-> radius,
             _base_light_img |-> base, _colored_light_img |-> base, light_img |-> base,
             alpha |-> alpha, color |-> color,
             timer |-> 1, flicker_timer |-> 1,
             variance |-> 0, variance_size |-> radius \div 30])

\* int(1 + sin(timer / 10)): sin(timer / 10) lies in (0, 1) while 0 < timer / 10 < pi,
\* that is for timer in 1..31; beyond that it is 0 or 1 according to the sign of the sine.
pulse(timer) == IF timer <= 31 THEN {1} ELSE {0, 1}

\* random.randint(30, 60), drawn at its two ends: the value only delays the next flicker
flicker_times == {30, 60}

\* Light.update: the set of lights it can leave (random.randint and the sine choose).
update(l) ==
    LET t == l.timer + 1
        waved == {[set_size(l, p + l._base_radius + l.variance)
                      EXCEPT !.timer = t, !.flicker_timer = l.flicker_timer - 1] :
                  p \in pulse(t)}
    IN  IF l.flicker_timer - 1 < 0
        THEN {[set_alpha(set_size([l1 EXCEPT !.variance = v], l1._base_radius + v),
                         Max(0, Min(255, l1.alpha + v)))
                  EXCEPT !.flicker_timer = f] :
              l1 \in waved, v \in (0 - l.variance_size)..l.variance_size,
              f \in flicker_times}
        ELSE waved

----------------------------------------------------------------------------
(* Python dicts: sequences of <<key, value>> in insertion order *)

DictHas(d, k) == \E i \in 1..Len(d) : d[i][1] = k
DictGet(d, k) == d[CHOOSE i \in 1..Len(d) : d[i][1] = k][2]
\* d[k] = v: a new key goes last, an old key keeps its place
DictSet(d, k, v) ==
    IF DictHas(d, k)
    THEN [i \in 1..Len(d) |-> IF d[i][1] = k THEN <<k, v>> ELSE d[i]]
    ELSE Append(d, <<k, v>>)
DictDel(d, k) == SelectSeq(d, LAMBDA e : e[1] # k)
RECURSIVE DictUpdate(_, _)
DictUpdate(d, e) ==
    IF e = <<>> THEN d ELSE DictUpdate(DictSet(d, Head(e)[1], Head(e)[2]), Tail(e))
DictKeys(d) == {d[i][1] : i \in 1..Len(d)}
DictValues(d) == [i \in 1..Len(d) |-> d[i][2]]

RECURSIVE Concat(_)
Concat(lists) == IF lists = <<>> THEN <<>> ELSE Head(lists) \o Concat(Tail(lists))

----------------------------------------------------------------------------
(* Module-level helpers of the chunk index *)

point_str(point) == ToString(point[1]) \o ";" \o ToString(point[2])

get_chunk(point, size) == <<point[1] \div size, point[2] \div size>>

----------------------------------------------------------------------------
(* class LightBox *)

chunk_size == 80
chunk_overshoot == 1
blit_flags == "BLEND_RGBA_ADD"
\* LightBox(size): the size of the display
ViewSize == <<160, 80>>
vision_box_r == Rect(0, 0, ViewSize[1], ViewSize[2])

\* the key of a wall in a chunk bucket
wall_str(w) == point_str(w.p1) \o ";" \o point_str(w.p2) \o ";" \o ToString(w.direction)

\* only the chunks of the two endpoints
chunk_list_ends(w) == <<get_chunk(w.p1, chunk_size), get_chunk(w.p2, chunk_size)>>

\* the chunks add_walls registers a wall in
chunk_list(w) ==
    LET p1_chunk == get_chunk(w.p1, chunk_size)
        p2_chunk == get_chunk(w.p2, chunk_size)
    IN  IF p1_chunk # p2_chunk
        THEN IF Abs(p1_chunk[1] - p2_chunk[1]) > 0
             THEN [i \in 1..(Max(p1_chunk[1], p2_chunk[1]) - Min(p1_chunk[1], p2_chunk[1]) + 1) |->
                      <<Min(p1_chunk[1], p2_chunk[1]) + (i - 1), p1_chunk[2]>>]
             ELSE IF Abs(p1_chunk[2] - p2_chunk[2]) > 0
             THEN [i \in 1..(Max(p1_chunk[2], p2_chunk[2]) - Min(p1_chunk[2], p2_chunk[2]) + 1) |->
                      <<p1_chunk[1], Min(p1_chunk[2], p2_chunk[2]) + (i - 1)>>]
             ELSE <<>>
        ELSE <<p1_chunk, p2_chunk>>

\* for chunk in chunk_list: self.chunk_walls[chunk_str][wall_str] = wall
RECURSIVE register_wall(_, _, _)
register_wall(cw, w, chunks) ==
    IF chunks = <<>> THEN cw
    ELSE LET chunk_str == point_str(Head(chunks))
             cw1 == IF DictHas(cw, chunk_str) THEN cw ELSE DictSet(cw, chunk_str, <<>>)
             bucket == DictSet(DictGet(cw1, chunk_str), wall_str(w), w)
         IN  register_wall(DictSet(cw1, chunk_str, bucket), w, Tail(chunks))

\* the chunk index after add_walls(ws)
RECURSIVE add_walls(_, _)
add_walls(cw, ws) ==
    IF ws = <<>> THEN cw
    ELSE add_walls(register_wall(cw, Head(ws), chunk_list(Head(ws))), Tail(ws))

RECURSIVE _get_max_light_radius(_)
_get_max_light_radius(ls) ==
    IF ls = <<>> THEN 0 ELSE Max(_get_max_light_radius(SubSeq(ls, 1, Len(ls) - 1)), ls[Len(ls)][2].radius)

\* render_box_r, placed at the offset (world space) or at the origin (local space)
render_box_r(max_radius, offset) ==
    Rect(-max_radius + offset[1], -max_radius + offset[2],
         vision_box_r.w + max_radius * 2, vision_box_r.h + max_radius * 2)

\* the chunk keys render looks up, in the order of its two loops (y outside, x inside)
lookup_chunks(offset) ==
    LET ny == vision_box_r.h \div chunk_size + chunk_overshoot * 2 + 1
        nx == vision_box_r.w \div chunk_size + chunk_overshoot * 2 + 1
    IN  [k \in 1..(ny * nx) |->
            LET y == (k - 1) \div nx
                x == (k - 1) % nx
            IN  ToString(x - chunk_overshoot \div 2 + offset[1] \div chunk_size) \o ";"
                  \o ToString(y - chunk_overshoot \div 2 + offset[2] \div chunk_size)]

RECURSIVE collect_chunks(_, _, _)
collect_chunks(valid_wall_dict, cw, chunks) ==
    IF chunks = <<>> THEN valid_wall_dict
    ELSE collect_chunks(IF DictHas(cw, Head(chunks))
                        THEN DictUpdate(valid_wall_dict, DictGet(cw, Head(chunks)))
                        ELSE valid_wall_dict,
                        cw, Tail(chunks))

\* valid_walls after the chunk lookup: list(valid_wall_dict.values())
chunk_lookup(cw, offset) == DictValues(collect_chunks(<<>>, cw, lookup_chunks(offset)))

\* valid_walls with every dynamic group appended
candidate_walls(cw, dw, offset) == chunk_lookup(cw, offset) \o Concat(DictValues(dw))

\* [wall.clone_move(-offset) for wall in valid_walls if wall.rect.colliderect(render_box_r)]
broad_phase(valid_walls, box, offset) ==
    LET kept == SelectSeq(valid_walls, LAMBDA w : colliderect(w.rect, box))
    IN  [i \in 1..Len(kept) |-> clone_move(kept[i], <<-offset[1], -offset[2]>>)]

\* the walls render returns
visible_walls(cw, dw, ls, offset) ==
    broad_phase(candidate_walls(cw, dw, offset),
                render_box_r(_get_max_light_radius(ls), offset), offset)

RECURSIVE draw_shadows(_, _, _, _, _)
draw_shadows(s, ws, light_pos, box, light_offset) ==
    IF ws = <<>> THEN s
    ELSE draw_shadows(draw_shadow(Head(ws), s, light_pos, box, BLACK, light_offset),
                      Tail(ws), light_pos, box, light_offset)

light_pos_of(l, offset) == <<l.position[1] - offset[1], l.position[2] - offset[2]>>

\* the lights loop of render: the mask after the lights ls
RECURSIVE rendered_mask(_, _, _, _)
rendered_mask(ls, valid_walls, box, offset) ==
    IF ls = <<>> THEN Surface(<<vision_box_r.w, vision_box_r.h>>)
    ELSE LET mask == rendered_mask(SubSeq(ls, 1, Len(ls) - 1), valid_walls, box, offset)
             l == ls[Len(ls)][2]
             light_pos == light_pos_of(l, offset)
             light_offset == <<light_pos[1] - l.radius, light_pos[2] - l.radius>>
         IN  IF collidepoint(box, light_pos)
             THEN blit(mask, draw_shadows(l.light_img, valid_walls, light_pos, box, light_offset),
                       light_offset, "BLEND_RGBA_ADD")
             ELSE mask

\* every light updated, inside the box or not
RECURSIVE updated_lights_all(_, _, _)
updated_lights_all(ls, box, offset) ==
    IF ls = <<>> THEN {<<>>}
    ELSE LET e == ls[Len(ls)]
         IN  {Append(rest, <<e[1], l>>) :
                 rest \in updated_lights_all(SubSeq(ls, 1, Len(ls) - 1), box, offset),
                 l \in update(e[2])}

\* the lights loop of render: the lights dicts it can leave (each light inside the box
\* is updated once)
RECURSIVE updated_lights(_, _, _)
updated_lights(ls, box, offset) ==
    IF ls = <<>> THEN {<<>>}
    ELSE LET e == ls[Len(ls)]
             after == IF collidepoint(box, light_pos_of(e[2], offset))
                      THEN update(e[2]) ELSE {e[2]}
         IN  {Append(rest, <<e[1], l>>) : rest \in updated_lights(SubSeq(ls, 1, Len(ls) - 1), box, offset),
                                            l \in after}

----------------------------------------------------------------------------
(* generate_walls *)

MaxTiles == 4

\* the grid positions a map lists as air, and the tile sizes
GenCells == (0..2) \X (0..1)
TileSizes == {1, 2}
\* load_map on the rows "000", "010", "000": the air tiles row by row
Map3x3 == <<<<0, 0>>, <<1, 0>>, <<2, 0>>, <<0, 1>>, <<2, 1>>, <<0, 2>>, <<1, 2>>, <<2, 2>>>>

\* "x;y;vertical;direction" for every point and facing a line can have
line_key(point, facing) ==
    point_str(point) \o ";" \o ToString(facing[1]) \o ";" \o ToString(facing[2])
Facings == {<<0, -1>>, <<0, 1>>, <<1, -1>>, <<1, 1>>}
\* the coordinates a key can hold: up to three tiles of size 10
ParseCoords == 0..30
KeyTable ==
    {<<line_key(<<x, y>>, f), <<x, y>>, f>> : x \in ParseCoords, y \in ParseCoords, f \in Facings}
\* what splitting the key at ";" and int() give back: the entry of the key
parsed(string) == CHOOSE e \in KeyTable : e[1] = string

\* line_str(line, point): the key of an endpoint of a line [p1, p2, [vertical, direction]]
line_str(line, point) == line_key(line[point + 1], line[3])

\* [int(v) for v in string.split(";")[:2]]
str_point(string) == parsed(string)[2]

\* the lines of one air tile: a side is a line when the neighbour is not in map_dict
tile_lines(air_tile, map_dict, tile_size) ==
    LET x == air_tile[1] * tile_size
        y == air_tile[2] * tile_size
    IN  (IF point_str(<<air_tile[1] + 1, air_tile[2]>>) \notin map_dict
         THEN << <<<<x + tile_size, y>>, <<x + tile_size, y + tile_size>>, <<0, -1>>>> >>
         ELSE <<>>)
        \o (IF point_str(<<air_tile[1] - 1, air_tile[2]>>) \notin map_dict
            THEN << <<<<x, y>>, <<x, y + tile_size>>, <<0, 1>>>> >>
            ELSE <<>>)
        \o (IF point_str(<<air_tile[1], air_tile[2] + 1>>) \notin map_dict
            THEN << <<<<x, y + tile_size>>, <<x + tile_size, y + tile_size>>, <<1, -1>>>> >>
            ELSE <<>>)
        \o (IF point_str(<<air_tile[1], air_tile[2] - 1>>) \notin map_dict
            THEN << <<<<x, y>>, <<x + tile_size, y>>, <<1, 1>>>> >>
            ELSE <<>>)

\* lines after the loop over map_data
gen_lines(map_data, tile_size) ==
    LET map_dict == {point_str(map_data[i]) : i \in 1..Len(map_data)}
    IN  Concat([i \in 1..Len(map_data) |-> tile_lines(map_data[i], map_dict, tile_size)])

\* line_dict[key] = [value] whether the key is there or not
link_replace(line_dict, key, value) == DictSet(line_dict, key, <<value>>)

\* line_dict[key].append(value), or line_dict[key] = [value]
link(line_dict, key, value) ==
    IF DictHas(line_dict, key)
    THEN DictSet(line_dict, key, Append(DictGet(line_dict, key), value))
    ELSE DictSet(line_dict, key, <<value>>)

RECURSIVE gen_line_dict(_, _)
gen_line_dict(line_dict, lines) ==
    IF lines = <<>> THEN line_dict
    ELSE LET line == Head(lines)
             d0 == link(line_dict, line_str(line, 0), line_str(line, 1))
             d1 == link(d0, line_str(line, 1), line_str(line, 0))
         IN  gen_line_dict(d1, Tail(lines))

\* the loop left at the first point after p1
follow_one(line_dict, point, p1, direction, tile_size, offset, processed_points) ==
    LET target_pos == line_key(<<p1[1] + direction[1] * tile_size,
                                 p1[2] + direction[2] * tile_size>>,
                               parsed(point)[3])
    IN  [raised |-> "nothing", processed_points |-> Append(processed_points, target_pos),
         target_pos |-> target_pos]

\* the while loop: follows the line from p1; gives the processed points and the key of
\* the other end, or the KeyError of line_dict[target_pos]
RECURSIVE follow(_, _, _, _, _, _, _)
follow(line_dict, point, p1, direction, tile_size, offset, processed_points) ==
    LET target_pos == line_key(<<p1[1] + direction[1] * offset * tile_size,
                                 p1[2] + direction[2] * offset * tile_size>>,
                               parsed(point)[3])
        processed == Append(processed_points, target_pos)
    IN  IF ~DictHas(line_dict, target_pos)
        THEN [raised |-> "KeyError", processed_points |-> processed]
        ELSE IF Len(DictGet(line_dict, target_pos)) = 1
        THEN [raised |-> "nothing", processed_points |-> processed, target_pos |-> target_pos]
        ELSE follow(line_dict, point, p1, direction, tile_size, offset + 1, processed)

\* the loop over line_dict from its k-th key on: final_walls as [p1, p2, vertical,
\* direction], before the edges are corrected
RECURSIVE walk(_, _, _, _, _)
walk(line_dict, tile_size, k, processed_points, final_walls) ==
    IF k > Len(line_dict) THEN [raised |-> "nothing", final_walls |-> final_walls]
    ELSE LET point == line_dict[k][1]
         IN  IF point \notin {processed_points[i] : i \in 1..Len(processed_points)}
                /\ Len(line_dict[k][2]) = 1
             THEN LET p1 == str_point(point)
                      p2 == str_point(line_dict[k][2][1])
                      direction == <<(p2[1] - p1[1]) \div tile_size,
                                     (p2[2] - p1[2]) \div tile_size>>
                      f == follow(line_dict, point, p1, direction, tile_size, 1,
                                  Append(processed_points, point))
                  IN  IF f.raised = "KeyError"
                      THEN [raised |-> "KeyError", final_walls |-> final_walls]
                      ELSE walk(line_dict, tile_size, k + 1, f.processed_points,
                                Append(final_walls,
                                       <<p1, str_point(f.target_pos),
                                         parsed(point)[3][1], parsed(point)[3][2]>>))
             ELSE walk(line_dict, tile_size, k + 1, processed_points, final_walls)

\* no correction
correct_edges_none(wall_, map_data, tile_size) == wall_

\* the correction of one wall [p1, p2, vertical, direction]
correct_edges(wall_, map_data, tile_size) ==
    LET tile_x == wall_[1][1] \div tile_size
        tile_y == wall_[1][2] \div tile_size
        in_map(t) == \E i \in 1..Len(map_data) : map_data[i] = t
        shorten ==
            IF wall_[3] = 0
            THEN IF wall_[4] = 1 THEN in_map(<<tile_x, tile_y + 1>>)
                 ELSE in_map(<<tile_x - 1, tile_y + 1>>)
            ELSE IF wall_[4] = 1 THEN in_map(<<tile_x + 1, tile_y>>)
                 ELSE in_map(<<tile_x + 1, tile_y - 1>>)
        a == IF wall_[3] = 0 THEN 2 ELSE 1
        b == IF wall_[3] = 0 THEN 1 ELSE 2
        q2 == IF shorten THEN [wall_[2] EXCEPT ![a] = @ - 1] ELSE wall_[2]
        q1 == wall_[1]
    IN  IF wall_[4] = 1
        THEN <<[q1 EXCEPT ![b] = @ - 1], [q2 EXCEPT ![b] = @ - 1], wall_[3], wall_[4]>>
        ELSE <<q1, q2, wall_[3], wall_[4]>>

\* generate_walls(light_box, map_data, tile_size): the lines, final_walls before and
\* after the correction, and the Wall objects it returns and adds to the light box
generate_walls(map_data, tile_size) ==
    LET lines == gen_lines(map_data, tile_size)
        line_dict == gen_line_dict(<<>>, lines)
        walked == walk(line_dict, tile_size, 1, <<>>, <<>>)
        corrected == [i \in 1..Len(walked.final_walls) |->
                         correct_edges(walked.final_walls[i], map_data, tile_size)]
    IN  [raised |-> walked.raised, lines |-> lines, merged |-> walked.final_walls,
         result |-> IF walked.raised = "KeyError" THEN <<>>
                    ELSE [i \in 1..Len(corrected) |->
                             Wall(corrected[i][1], corrected[i][2], corrected[i][3],
                                  corrected[i][4], WHITE)]]

----------------------------------------------------------------------------
(* The objects the specifications start from *)

IdleLightBox ==
    /\ walls = <<>> /\ chunk_walls = <<>>
    /\ dynamic_walls = <<>> /\ dynamic_wall_id = 0
    /\ lights = <<>> /\ light_id = 0
    /\ ret = [op |-> "init"]
    /\ minted = [lights |-> <<>>, groups |-> <<>>]
    /\ calls = 0
IdleLight == light = [op |-> "init"]
IdleWall == wall = [op |-> "init"] /\ surf = [op |-> "init"] /\ call = [op |-> "init"]

RED == <<255, 0, 0>>
Colors == {WHITE, RED}

----------------------------------------------------------------------------
(* SpecWall: one Wall, its methods called with every argument of a small grid *)

MaxGrid == 2

Coords == {2 * i : i \in 0..MaxGrid}
\* every axis-aligned wall between grid points, in both endpoint orders, both facings
WallInputs ==
    LET args == {t \in (Coords \X Coords) \X (Coords \X Coords) \X {0, 1} \X {-1, 1} \X Colors :
                    IF t[3] = 1 THEN t[1][2] = t[2][2] ELSE t[1][1] = t[2][1]}
    IN  {Wall(t[1], t[2], t[3], t[4], t[5]) : t \in args}
SourceInputs == (-1..(2 * MaxGrid + 1)) \X (-1..(2 * MaxGrid + 1))
\* the visible area; the walls of column 0 lie to its left
VisionBox == Rect(1, -1, 2 * MaxGrid, 2 * MaxGrid + 2)
OffsetInputs == {<<0, 0>>, <<3, -1>>}
\* the surface draw_shadow draws on: a copy of a light's image
TargetSurf == Light(<<0, 0>>, MaxGrid + 1, Surface(<<8, 8>>), WHITE, 255).light_img

\* The arguments are drawn here; each action is one call with them.
InitWall ==
    /\ wall \in WallInputs
    /\ surf = TargetSurf
    /\ \E source \in SourceInputs, offset \in OffsetInputs :
          call = [op |-> "args", source |-> source, offset |-> offset]
    /\ IdleLightBox /\ IdleLight

CheckCast ==
    /\ call.op = "args"
    /\ call' = [op |-> "_check_cast", source |-> call.source,
                result |-> _check_cast(wall, call.source)]
    /\ UNCHANGED <<wall, surf, lbvars, light>>

DrawShadow ==
    /\ call.op = "args"
    /\ surf' = draw_shadow(wall, surf, call.source, VisionBox, BLACK, call.offset)
    /\ call' = [op |-> "draw_shadow", target |-> surf, source |-> call.source,
                vision_box |-> VisionBox, color |-> BLACK, offset |-> call.offset]
    /\ UNCHANGED <<wall, lbvars, light>>

CloneMove ==
    /\ call.op = "args"
    /\ call' = [op |-> "clone_move", self |-> wall, offset |-> call.offset,
                result |-> clone_move(wall, call.offset)]
    /\ UNCHANGED <<wall, surf, lbvars, light>>

Sides == 0..3

GetIntermediatePoints ==
    \E p1_side \in Sides, p2_side \in Sides :
        /\ call.op = "args"
        /\ call' = [op |-> "_get_intermediate_points", p1_side |-> p1_side,
                    p2_side |-> p2_side, vision_box |-> VisionBox,
                    result |-> _get_intermediate_points(wall, p1_side, p2_side, VisionBox)]
        /\ UNCHANGED <<wall, surf, lbvars, light>>

DetermineCastEndpoint ==
    \E point \in {wall.p1, wall.p2} :
        /\ call.op = "args"
        /\ call' = [op |-> "_determine_cast_endpoint", source |-> call.source,
                    point |-> point, vision_box |-> VisionBox,
                    result |-> _determine_cast_endpoint(call.source, point, VisionBox)]
        /\ UNCHANGED <<wall, surf, lbvars, light>>

NextWall ==
    \/ CheckCast \/ DrawShadow \/ CloneMove \/ GetIntermediatePoints
    \/ DetermineCastEndpoint

SpecWall == InitWall /\ [][NextWall]_vars

----------------------------------------------------------------------------
(* SpecLight: one Light and its setters *)

MaxTimer == 3

RadiusInputs == {40, 80}
AlphaInputs == {255, 128}
LightImg == Surface(<<64, 64>>)

InitLight ==
    /\ \E radius \in RadiusInputs, color \in Colors, alpha \in AlphaInputs :
          light = Light(<<100, 40>>, radius, LightImg, color, alpha)
    /\ IdleLightBox /\ IdleWall

SetSize ==
    \E radius \in RadiusInputs :
        light' = set_size(light, radius) /\ UNCHANGED <<lbvars, wallvars>>

SetColor ==
    \E color \in Colors, override_alpha \in BOOLEAN :
        light' = set_color(light, color, override_alpha) /\ UNCHANGED <<lbvars, wallvars>>

SetAlpha ==
    \E alpha \in AlphaInputs :
        light' = set_alpha(light, alpha) /\ UNCHANGED <<lbvars, wallvars>>

Update ==
    /\ light.timer < MaxTimer
    /\ light' \in update(light)
    /\ UNCHANGED <<lbvars, wallvars>>

NextLight == SetSize \/ SetColor \/ SetAlpha \/ Update

SpecLight == InitLight /\ [][NextLight]_vars

----------------------------------------------------------------------------
(* Spec: a LightBox and the calls of its public interface *)

MaxCalls == 4

\* crosses one chunk boundary inside the display
wA == Wall(<<10, 10>>, <<150, 10>>, 1, 1, WHITE)
\* the same segment and direction in another colour: the same key in the chunk index
wA2 == Wall(<<10, 10>>, <<150, 10>>, 1, 1, RED)
\* the left face of a tile at the map's origin, where generate_walls puts it: in chunk -1
wEdge == Wall(<<-1, 0>>, <<-1, 80>>, 0, 1, WHITE)
\* right of the display, across chunks 3, 4 and 5, its endpoints in descending order
wFar == Wall(<<450, 10>>, <<250, 10>>, 1, -1, WHITE)
StaticWalls == {wA, wA2, wEdge, wFar}
StaticLists == {<<w>> : w \in StaticWalls} \cup {<<wA, wFar>>}

\* a dynamic wall inside the display, and the same wall far to the right of it
dIn == Wall(<<60, 20>>, <<60, 60>>, 0, 1, WHITE)
dOut == Wall(<<1060, 20>>, <<1060, 60>>, 0, 1, WHITE)
DynamicLists == {<<dIn>>, <<dOut>>}
\* the segments an in-place edit moves a dynamic wall to
EditTargets == {<<dIn.p1, dIn.p2>>, <<dOut.p1, dOut.p2>>}

\* a light inside the display and a larger one to the right of it
LightInputs == {Light(<<100, 40>>, 50, LightImg, WHITE, 255),
                Light(<<300, 40>>, 100, LightImg, WHITE, 255)}
RenderOffsets == {<<0, 0>>, <<80, 0>>, <<240, 0>>, <<-40, -40>>}
IdInputs == {"1", "2"}

\* one more call, while the budget of calls lasts
Called == calls < MaxCalls /\ calls' = calls + 1

Init ==
    /\ IdleLightBox /\ IdleLight /\ IdleWall

AddWalls ==
    \E ws \in StaticLists :
        /\ Called
        /\ walls' = walls \o ws
        /\ chunk_walls' = add_walls(chunk_walls, ws)
        /\ ret' = [op |-> "add_walls", walls |-> ws]
        /\ UNCHANGED <<dynamic_walls, dynamic_wall_id, lights, light_id, minted,
                       light, wallvars>>

ClearWalls ==
    /\ Called
    /\ walls' = <<>>
    /\ chunk_walls' = <<>>
    /\ ret' = [op |-> "clear_walls"]
    /\ UNCHANGED <<dynamic_walls, dynamic_wall_id, lights, light_id, minted, light, wallvars>>

AddDynamicWalls ==
    \E ws \in DynamicLists :
        /\ Called
        /\ dynamic_wall_id' = dynamic_wall_id + 1
        /\ dynamic_walls' = DictSet(dynamic_walls, ToString(dynamic_wall_id'), ws)
        /\ ret' = [op |-> "add_dynamic_walls", id |-> ToString(dynamic_wall_id')]
        /\ minted' = [minted EXCEPT !.groups = Append(@, ToString(dynamic_wall_id'))]
        /\ UNCHANGED <<walls, chunk_walls, lights, light_id, light, wallvars>>

UpdateDynamicWalls ==
    \E group_id \in IdInputs, ws \in DynamicLists :
        /\ Called
        /\ dynamic_walls' = DictSet(dynamic_walls, group_id, ws)
        /\ ret' = [op |-> "update_dynamic_walls", id |-> group_id, raised |-> "nothing"]
        /\ UNCHANGED <<walls, chunk_walls, dynamic_wall_id, lights, light_id, minted,
                       light, wallvars>>

DeleteDynamicWalls ==
    \E group_id \in IdInputs :
        /\ Called
        /\ IF DictHas(dynamic_walls, group_id)
           THEN /\ dynamic_walls' = DictDel(dynamic_walls, group_id)
                /\ ret' = [op |-> "delete_dynamic_walls", id |-> group_id,
                           raised |-> "nothing"]
           ELSE /\ dynamic_walls' = dynamic_walls
                /\ ret' = [op |-> "delete_dynamic_walls", id |-> group_id,
                           raised |-> "KeyError"]
        /\ UNCHANGED <<walls, chunk_walls, dynamic_wall_id, lights, light_id, minted,
                       light, wallvars>>

\* The caller moves a wall of a dynamic group in place (wall.p1[0] = ..., wall.p2[0] = ...):
\* no method of Wall runs, so the rect stays as __init__ left it.
EditDynamicWall ==
    \E g \in 1..Len(dynamic_walls), t \in EditTargets :
        \E i \in 1..Len(dynamic_walls[g][2]) :
            /\ Called
            /\ <<dynamic_walls[g][2][i].p1, dynamic_walls[g][2][i].p2>> # t
            /\ dynamic_walls' = [dynamic_walls EXCEPT ![g][2][i].p1 = t[1],
                                                      ![g][2][i].p2 = t[2]]
            /\ ret' = [op |-> "edit"]
            /\ UNCHANGED <<walls, chunk_walls, dynamic_wall_id, lights, light_id, minted,
                           light, wallvars>>

AddLight ==
    \E l \in LightInputs :
        /\ Called
        /\ light_id' = light_id + 1
        /\ lights' = DictSet(lights, ToString(light_id'), l)
        /\ ret' = [op |-> "add_light", id |-> ToString(light_id')]
        /\ minted' = [minted EXCEPT !.lights = Append(@, ToString(light_id'))]
        /\ UNCHANGED <<walls, chunk_walls, dynamic_walls, dynamic_wall_id, light, wallvars>>

GetLight ==
    \E id \in IdInputs :
        /\ Called
        /\ ret' = IF DictHas(lights, id)
                  THEN [op |-> "get_light", id |-> id, raised |-> "nothing",
                        value |-> DictGet(lights, id)]
                  ELSE [op |-> "get_light", id |-> id, raised |-> "KeyError"]
        /\ UNCHANGED <<walls, chunk_walls, dynamic_walls, dynamic_wall_id, lights, light_id,
                       minted, light, wallvars>>

DeleteLight ==
    \E id \in IdInputs :
        /\ Called
        /\ IF DictHas(lights, id)
           THEN /\ lights' = DictDel(lights, id)
                /\ ret' = [op |-> "delete_light", id |-> id, raised |-> "nothing"]
           ELSE /\ lights' = lights
                /\ ret' = [op |-> "delete_light", id |-> id, raised |-> "KeyError"]
        /\ UNCHANGED <<walls, chunk_walls, dynamic_walls, dynamic_wall_id, light_id, minted,
                       light, wallvars>>

\* render(target_surf, offset) on a blank target of the size of the display
Render ==
    \E offset \in RenderOffsets :
        LET max_radius == _get_max_light_radius(lights)
            valid_walls == visible_walls(chunk_walls, dynamic_walls, lights, offset)
            box == render_box_r(max_radius, <<0, 0>>)
            mask == rendered_mask(lights, valid_walls, box, offset)
        IN  /\ Called
            /\ lights' \in updated_lights(lights, box, offset)
            /\ ret' = [op |-> "render", offset |-> offset, max_radius |-> max_radius,
                       walls |-> valid_walls,
                       target |-> blit(Surface(ViewSize), mask, <<0, 0>>, blit_flags)]
            /\ UNCHANGED <<walls, chunk_walls, dynamic_walls, dynamic_wall_id, light_id,
                           minted, light, wallvars>>

Next ==
    \/ AddWalls \/ ClearWalls
    \/ AddDynamicWalls \/ UpdateDynamicWalls \/ EditDynamicWall
    \/ AddLight
    \/ Render

Spec == Init /\ [][Next]_vars

----------------------------------------------------------------------------
(* SpecIds: the lights and the dynamic groups of a LightBox, by id *)

NextIds ==
    \/ AddLight \/ GetLight \/ DeleteLight
    \/ AddDynamicWalls \/ UpdateDynamicWalls \/ DeleteDynamicWalls

SpecIds == Init /\ [][NextIds]_vars

----------------------------------------------------------------------------
(* SpecGen: generate_walls on a fresh LightBox, for every map of a small grid *)

\* the lists of up to n different tiles, in every order
RECURSIVE TileLists(_)
TileLists(n) ==
    IF n = 0 THEN {<<>>}
    ELSE LET shorter == TileLists(n - 1)
         IN  shorter \cup {Append(m, c) : m \in {x \in shorter : Len(x) = n - 1},
                                           c \in GenCells}
MapInputs ==
    {m \in TileLists(MaxTiles) : \A i, j \in 1..Len(m) : i # j => m[i] # m[j]}
\* a block of w x h air tiles with its corner at <<x0, y0>>, row by row
BlockMap(x0, y0, w, h) == [k \in 1..(w * h) |-> <<x0 + ((k - 1) % w), y0 + ((k - 1) \div w)>>]
BlockInputs ==
    {BlockMap(b[1], b[2], b[3], b[4]) :
        b \in {t \in (0..2) \X (0..1) \X (1..3) \X (1..2) : t[1] + t[3] <= 3 /\ t[2] + t[4] <= 2}}
GenInputs ==
    {<<m, t>> : m \in MapInputs \cup BlockInputs, t \in TileSizes}
        \cup {<<Map3x3, 10>>}

InitGen ==
    /\ \E x \in GenInputs : call = [op |-> "args", map_data |-> x[1], tile_size |-> x[2]]
    /\ wall = [op |-> "init"] /\ surf = [op |-> "init"]
    /\ IdleLightBox /\ IdleLight

GenerateWalls ==
    /\ call.op = "args"
    /\ LET g == generate_walls(call.map_data, call.tile_size)
       IN  /\ call' = [op |-> "generate_walls", map_data |-> call.map_data,
                       tile_size |-> call.tile_size, raised |-> g.raised,
                       lines |-> g.lines, merged |-> g.merged, result |-> g.result]
           /\ walls' = walls \o call'.result
           /\ chunk_walls' = add_walls(chunk_walls, call'.result)
    /\ UNCHANGED <<dynamic_walls, dynamic_wall_id, lights, light_id, ret, minted, calls,
                   light, wall, surf>>

NextGen == GenerateWalls

SpecGen == InitGen /\ [][NextGen]_vars

----------------------------------------------------------------------------
(* Claims about Wall (SpecWall) *)

\* the source mirrored across the wall's line: the face-axis coordinate reflected through p1
mirrored(w, source) ==
    [source EXCEPT ![w.vertical + 1] = 2 * w.p1[w.vertical + 1] - source[w.vertical + 1]]

\* C9: _check_cast(source) is true exactly when (source[faceAxis] - p1[faceAxis]) *
\* direction < 0, that is when the source is before p1 on the face axis for direction 1
\* and after it for direction -1; for a source off the wall's line the mirrored source
\* gets the opposite answer, and a source on the line never casts.
C9_CheckCastAntisymmetric ==
    call.op = "_check_cast" =>
        LET a == wall.vertical + 1
            s == call.source
        IN  /\ call.result \in {0, 1}
            /\ (call.result = 1) <=>
                   IF wall.direction = 1 THEN s[a] < wall.p1[a] ELSE s[a] > wall.p1[a]
            /\ s[a] # wall.p1[a] => _check_cast(wall, mirrored(wall, s)) = 1 - call.result
            /\ s[a] = wall.p1[a] => call.result = 0

\* C9 witness: a source off the line that casts, whose mirror image does not
C9_Witness ==
    /\ call.op = "_check_cast"
    /\ call.source[wall.vertical + 1] # wall.p1[wall.vertical + 1]
    /\ call.result = 1
    /\ _check_cast(wall, mirrored(wall, call.source)) = 0

BoxCorners(r) == {RPoint(topleft(r)), RPoint(topright(r)),
                  RPoint(bottomleft(r)), RPoint(bottomright(r))}

\* the polygon draw_shadow appended to the target, if it appended one
DrawnPolygon == surf.ops[Len(surf.ops)]
\* its vertices before the offset was subtracted
DrawnPoints ==
    [i \in 1..Len(DrawnPolygon.points) |->
        <<RAdd(DrawnPolygon.points[i][1], RInt(call.offset[1])),
          RAdd(DrawnPolygon.points[i][2], RInt(call.offset[2]))>>]
SourceCasts ==
    (call.source[wall.vertical + 1] - wall.p1[wall.vertical + 1]) * wall.direction < 0

\* C10: draw_shadow leaves the target unchanged when the cast test fails; when it passes
\* it adds exactly one polygon in the given colour whose vertices, before the offset is
\* subtracted, are p1, the cast point of p1, 0 to 2 corners of the vision box, the cast
\* point of p2, p2: 4 to 6 vertices, the first p1 and the last p2.
C10_DrawShadowPolygon ==
    call.op = "draw_shadow" =>
        IF ~SourceCasts THEN surf = call.target
        ELSE /\ surf.size = call.target.size
             /\ Len(surf.ops) = Len(call.target.ops) + 1
             /\ SubSeq(surf.ops, 1, Len(call.target.ops)) = call.target.ops
             /\ DrawnPolygon.op = "polygon"
             /\ DrawnPolygon.color = call.color
             /\ LET n == Len(DrawnPoints)
                IN  /\ n \in 4..6
                    /\ DrawnPoints[1] = RPoint(wall.p1)
                    /\ DrawnPoints[n] = RPoint(wall.p2)
                    /\ DrawnPoints[2] =
                          _determine_cast_endpoint(call.source, wall.p1, call.vision_box)[1]
                    /\ DrawnPoints[n - 1] =
                          _determine_cast_endpoint(call.source, wall.p2, call.vision_box)[1]
                    /\ \A i \in 3..(n - 2) : DrawnPoints[i] \in BoxCorners(call.vision_box)

\* C10 witness: a shadow with two intermediate corners was drawn with a non-zero offset
C10_Witness ==
    /\ call.op = "draw_shadow"
    /\ SourceCasts
    /\ call.offset # <<0, 0>>
    /\ Len(surf.ops) = Len(call.target.ops) + 1
    /\ Len(DrawnPolygon.points) = 6

\* C11: clone_move(o) returns a wall translated by o with the same face axis, direction
\* and colour and leaves the wall it was called on as it was; cloning the result by -o
\* gives back the wall's p1, p2, face axis, direction, colour and rect.
C11_CloneMoveRoundTrip ==
    call.op = "clone_move" =>
        LET o == call.offset
            r == call.result
            back == clone_move(r, <<-o[1], -o[2]>>)
        IN  /\ r.p1 = <<call.self.p1[1] + o[1], call.self.p1[2] + o[2]>>
            /\ r.p2 = <<call.self.p2[1] + o[1], call.self.p2[2] + o[2]>>
            /\ r.rect = Rect(call.self.rect.x + o[1], call.self.rect.y + o[2],
                             call.self.rect.w, call.self.rect.h)
            /\ r.vertical = call.self.vertical /\ r.direction = call.self.direction
            /\ r.color = call.self.color
            /\ wall = call.self
            /\ back.p1 = wall.p1 /\ back.p2 = wall.p2 /\ back.vertical = wall.vertical
            /\ back.direction = wall.direction /\ back.color = wall.color
            /\ back.rect = wall.rect

\* a wall with its endpoints in descending order, cloned by an offset that moves both axes
C11_Witness ==
    /\ call.op = "clone_move"
    /\ call.offset = <<3, -1>>
    /\ wall.p1[1] > wall.p2[1]
    /\ call.result.p1 # wall.p1 /\ call.result.rect # wall.rect

\* the point lies on the side of the rect (0 = top, 1 = bottom, 2 = left, 3 = right)
OnSide(p, side, r) ==
    CASE side = 0 -> p[2] = top(r) /\ p[1] >= left(r) /\ p[1] <= right(r)
      [] side = 1 -> p[2] = bottom(r) /\ p[1] >= left(r) /\ p[1] <= right(r)
      [] side = 2 -> p[1] = left(r) /\ p[2] >= top(r) /\ p[2] <= bottom(r)
      [] side = 3 -> p[1] = right(r) /\ p[2] >= top(r) /\ p[2] <= bottom(r)
Opposite(s1, s2) == {s1, s2} \in {{0, 1}, {2, 3}}
\* the corners for an unordered pair of sides and a direction
CornerTable(pair, direction, r) ==
    CASE pair = {0, 3} -> <<topright(r)>>
      [] pair = {1, 3} -> <<bottomright(r)>>
      [] pair = {1, 2} -> <<bottomleft(r)>>
      [] pair = {0, 2} -> <<topleft(r)>>
      [] pair = {0, 1} -> IF direction = -1 THEN <<topleft(r), bottomleft(r)>>
                          ELSE <<topright(r), bottomright(r)>>
      [] pair = {2, 3} -> IF direction = -1 THEN <<topleft(r), topright(r)>>
                          ELSE <<bottomleft(r), bottomright(r)>>
      [] OTHER -> <<>>

\* C15: _get_intermediate_points returns the corners the table gives for the unordered
\* pair of sides and the wall's direction: for adjacent sides the one corner on both of
\* them, for opposite sides two corners, for equal sides none.
C15_IntermediatePointsTable ==
    call.op = "_get_intermediate_points" =>
        LET s1 == call.p1_side
            s2 == call.p2_side
        IN  /\ call.result = CornerTable({s1, s2}, wall.direction, call.vision_box)
            /\ call.result = _get_intermediate_points(wall, s2, s1, call.vision_box)
            /\ IF s1 = s2 THEN call.result = <<>>
               ELSE IF Opposite(s1, s2) THEN Len(call.result) = 2
               ELSE /\ Len(call.result) = 1
                    /\ OnSide(call.result[1], s1, call.vision_box)
                    /\ OnSide(call.result[1], s2, call.vision_box)

\* adjacent sides given in descending order: right, then top
C15_Witness ==
    /\ call.op = "_get_intermediate_points"
    /\ call.p1_side = 3 /\ call.p2_side = 0
    /\ call.result = <<topright(call.vision_box)>>

\* a corner of the vision box among the drawn vertices, as an integer point
IntPoint(p) == <<p[1][1], p[2][1]>>
CastSide(point) == _determine_cast_endpoint(call.source, point, call.vision_box)[2]

\* C19: when draw_shadow, for a source inside the vision box, inserts two corners, the
\* first lies on the side of the vision box that the cast point of p1 is on and the second
\* on the side of the cast point of p2.
C19_CornersFollowBoundary ==
    (call.op = "draw_shadow" /\ SourceCasts /\ Len(surf.ops) = Len(call.target.ops) + 1
       /\ collidepoint(call.vision_box, call.source)
       /\ Len(DrawnPolygon.points) = 6) =>
        /\ OnSide(IntPoint(DrawnPoints[3]), CastSide(wall.p1), call.vision_box)
        /\ OnSide(IntPoint(DrawnPoints[4]), CastSide(wall.p2), call.vision_box)

RLeq(a, b) == ~RLess(b, a)
\* the point with rational coordinates lies on the side of the rect
OnSideR(p, side, r) ==
    CASE side = 0 -> p[2] = RInt(top(r)) /\ RLeq(RInt(left(r)), p[1]) /\ RLeq(p[1], RInt(right(r)))
      [] side = 1 -> p[2] = RInt(bottom(r)) /\ RLeq(RInt(left(r)), p[1]) /\ RLeq(p[1], RInt(right(r)))
      [] side = 2 -> p[1] = RInt(left(r)) /\ RLeq(RInt(top(r)), p[2]) /\ RLeq(p[2], RInt(bottom(r)))
      [] side = 3 -> p[1] = RInt(right(r)) /\ RLeq(RInt(top(r)), p[2]) /\ RLeq(p[2], RInt(bottom(r)))
Manhattan(p, source) ==
    RAdd(RAbs(RSub(p[1], RInt(source[1]))), RAbs(RSub(p[2], RInt(source[2]))))
StrictlyInside(p, r) ==
    left(r) < p[1] /\ p[1] < right(r) /\ top(r) < p[2] /\ p[2] < bottom(r)
\* how far a sentinel slope may move the cast point off the axis of the ray
Nudge == <<1, 1000>>

\* C16: for a source strictly inside the vision box, _determine_cast_endpoint returns a
\* side in 0..3 that agrees with the quadrant of the ray and a point on that side of the
\* box; for a ray that is neither vertical nor horizontal the point is the nearer (in
\* Manhattan distance to the source) of the ray's crossings of the two sides of its
\* quadrant; for a vertical or horizontal ray, or an endpoint equal to the source, the
\* point stays on the axis of the ray up to the nudge of the slope sentinel.
C16_CastEndpointOnSide ==
    (call.op = "_determine_cast_endpoint" /\ StrictlyInside(call.source, call.vision_box)) =>
        LET src == call.source
            e == call.point
            r == call.vision_box
            pt == call.result[1]
            side == call.result[2]
            dx == e[1] - src[1]
            dy == e[2] - src[2]
            hx == IF dx > 0 THEN right(r) ELSE left(r)
            vy == IF dy > 0 THEN bottom(r) ELSE top(r)
        IN  /\ side \in 0..3
            /\ side = 3 => e[1] > src[1]
            /\ side = 2 => e[1] <= src[1]
            /\ side = 1 => e[2] > src[2]
            /\ side = 0 => e[2] <= src[2]
            /\ OnSideR(pt, side, r)
            /\ IF dx # 0 /\ dy # 0
               THEN LET H == <<RInt(hx), RAdd(RInt(src[2]), Rat((hx - src[1]) * dy, dx))>>
                        V == <<RAdd(RInt(src[1]), Rat((vy - src[2]) * dx, dy)), RInt(vy)>>
                    IN  /\ pt \in {H, V}
                        /\ RLeq(Manhattan(pt, src), Manhattan(H, src))
                        /\ RLeq(Manhattan(pt, src), Manhattan(V, src))
               ELSE IF dx = 0
               THEN side \in {0, 1} /\ RLess(RAbs(RSub(pt[1], RInt(src[1]))), Nudge)
               ELSE side \in {2, 3} /\ RLess(RAbs(RSub(pt[2], RInt(src[2]))), Nudge)

\* an endpoint equal to the source: 0 / 0 in the slope
C16_Witness ==
    /\ call.op = "_determine_cast_endpoint" /\ StrictlyInside(call.source, call.vision_box)
    /\ call.point = call.source
    /\ call.result[2] = 0

----------------------------------------------------------------------------
(* Claims about Light (SpecLight) *)

\* how often the surface was multiplied by the colour c
Multiplied(s, c) == Cardinality({i \in 1..Len(s.ops) : s.ops[i] = [op |-> "mult", color |-> c]})

\* an alpha multiplies by a grey <<a, a, a>>; the colours of Colors other than white are not grey
IsGrey(c) == c[1] = c[2] /\ c[2] = c[3]

\* The surface carries the colour: it was multiplied by it once, and by no other colour.
\* Multiplying by white changes no pixel, so a white colour needs no multiplication.
ColorApplied(s, color) ==
    /\ \A i \in 1..Len(s.ops) : s.ops[i].op = "mult"
    /\ color # WHITE => Multiplied(s, color) = 1
    /\ \A i \in 1..Len(s.ops) : ~IsGrey(s.ops[i].color) => s.ops[i].color = color

\* The surface carries the alpha: it was multiplied by <<alpha, alpha, alpha>> once, and
\* by no other grey. An alpha of 255 is white.
AlphaApplied(s, alpha) ==
    /\ \A i \in 1..Len(s.ops) : s.ops[i].op = "mult"
    /\ alpha # 255 => Multiplied(s, <<alpha, alpha, alpha>>) = 1
    /\ \A i \in 1..Len(s.ops) :
          (IsGrey(s.ops[i].color) /\ s.ops[i].color # WHITE)
              => s.ops[i].color = <<alpha, alpha, alpha>>

\* C7: after any sequence of set_size, set_color, set_alpha and update, light_img is the
\* base image with the current colour and the current alpha applied, scaled to
\* 2 * radius. Stated here for the colour and the size: the cache never misses the
\* current colour. (The alpha is left out by set_color(override_alpha = True), as its
\* docstring says.)
C7_LightImgHasColor ==
    /\ light.light_img.size = <<2 * light.radius, 2 * light.radius>>
    /\ ColorApplied(light.light_img, light.color)

----------------------------------------------------------------------------
(* Claims about the chunk index and render (Spec) *)

Count(seq, v) == Cardinality({i \in 1..Len(seq) : seq[i] = v})
translated(w, offset) == clone_move(w, <<-offset[1], -offset[2]>>)
\* the bounding box of a wall's current segment
bounding(w) == _create_rect(w.p1, w.p2)
\* every wall of every dynamic group
DynamicWalls == Concat(DictValues(dynamic_walls))
\* the viewport grown by the largest radius, placed at the offset of the last render
ExpandedViewport ==
    Rect(ret.offset[1] - ret.max_radius, ret.offset[2] - ret.max_radius,
         ViewSize[1] + 2 * ret.max_radius, ViewSize[2] + 2 * ret.max_radius)
\* the wall is the only one of its key among the static walls
UniqueKey(i) == \A j \in 1..Len(walls) : wall_str(walls[j]) = wall_str(walls[i]) => walls[j] = walls[i]

\* C1: after a render, every static wall whose bounding rect intersects the viewport
\* expanded by the largest light radius is in the returned list, translated by -offset.
C1_StaticWallsReturned ==
    ret.op = "render" =>
        \A i \in 1..Len(walls) :
            (UniqueKey(i) /\ colliderect(walls[i].rect, ExpandedViewport))
                => Count(ret.walls, translated(walls[i], ret.offset)) >= 1

\* C2: after a render, every returned wall is the translated copy of a static or dynamic
\* wall whose bounding box (min/max of its p1, p2) intersects the expanded viewport.
C2_ReturnedWallsIntersect ==
    ret.op = "render" =>
        \A j \in 1..Len(ret.walls) :
            \E w \in {walls[i] : i \in 1..Len(walls)} \cup {DynamicWalls[i] : i \in 1..Len(DynamicWalls)} :
                /\ ret.walls[j] = translated(w, ret.offset)
                /\ colliderect(bounding(w), ExpandedViewport)

\* the chunks between chunk(p1) and chunk(p2)
SpanChunks(w) ==
    LET c1 == get_chunk(w.p1, chunk_size)
        c2 == get_chunk(w.p2, chunk_size)
    IN  (Min(c1[1], c2[1])..Max(c1[1], c2[1])) \X (Min(c1[2], c2[2])..Max(c1[2], c2[2]))
\* the chunks the lookup of the last render visits
VisitedChunks ==
    LET cx == ret.offset[1] \div chunk_size
        cy == ret.offset[2] \div chunk_size
    IN  (cx..(cx + ViewSize[1] \div chunk_size + 2 * chunk_overshoot))
            \X (cy..(cy + ViewSize[2] \div chunk_size + 2 * chunk_overshoot))
\* the entries of a chunk's bucket under a key
Entries(c, key) ==
    IF DictHas(chunk_walls, point_str(c))
    THEN SelectSeq(DictGet(chunk_walls, point_str(c)), LAMBDA e : e[1] = key)
    ELSE <<>>
\* the wall most recently added under the key of walls[i]
Latest(i) ==
    walls[CHOOSE j \in 1..Len(walls) :
              /\ wall_str(walls[j]) = wall_str(walls[i])
              /\ \A k \in (j + 1)..Len(walls) : wall_str(walls[k]) # wall_str(walls[i])]

\* C3 as stated: a static wall crossing a chunk boundary is the one entry under its key
\* in each bucket of its span, and a render whose lookup covers the span returns it once.
C3_ReturnedExactlyOnce ==
    \A i \in 1..Len(walls) :
        Cardinality(SpanChunks(walls[i])) >= 2 =>
            /\ \A c \in SpanChunks(walls[i]) :
                  Entries(c, wall_str(walls[i])) = << <<wall_str(walls[i]), walls[i]>> >>
            /\ (ret.op = "render" /\ SpanChunks(walls[i]) \subseteq VisitedChunks)
                  => Count(ret.walls, translated(walls[i], ret.offset)) = 1

\* C3, amended: each bucket of the span holds one entry under the wall's key, the wall
\* most recently added with that key; a render returns that entry once when its lookup
\* visits a chunk of the span and the entry's rect intersects the expanded viewport, and
\* not at all otherwise.
C3_OneEntryPerBucket ==
    \A i \in 1..Len(walls) :
        Cardinality(SpanChunks(walls[i])) >= 2 =>
            /\ \A c \in SpanChunks(walls[i]) :
                  Entries(c, wall_str(walls[i])) = << <<wall_str(walls[i]), Latest(i)>> >>
            /\ ret.op = "render" =>
                  Count(ret.walls, translated(Latest(i), ret.offset))
                      = IF /\ SpanChunks(walls[i]) \cap VisitedChunks # {}
                           /\ colliderect(Latest(i).rect, ExpandedViewport)
                        THEN 1 ELSE 0

\* a wall crossing two chunk boundaries, added twice, is returned once
C3_Witness ==
    /\ ret.op = "render"
    /\ \E i, j \in 1..Len(walls) : i < j /\ walls[i] = wFar /\ walls[j] = wFar
    /\ Cardinality(SpanChunks(wFar)) = 3
    /\ Count(ret.walls, translated(wFar, ret.offset)) = 1

\* the wall lies in the map the display covers, its faces where generate_walls puts them
InMap(w) ==
    \A p \in {w.p1, w.p2} : p[1] \in -1..ViewSize[1] /\ p[2] \in -1..ViewSize[2]

\* C4: with the display over the whole map and offset [0, 0], the walls the chunk lookup
\* collects are the walls of the static wall list.
C4_LookupEqualsWallList ==
    (\A i \in 1..Len(walls) : InMap(walls[i])) =>
        LET found == chunk_lookup(chunk_walls, <<0, 0>>)
        IN  {found[i] : i \in 1..Len(found)} = {walls[i] : i \in 1..Len(walls)}

\* C8: after a render, the dynamic walls returned are those whose current segment's
\* bounding box intersects the expanded viewport.
C8_DynamicWallsByGeometry ==
    ret.op = "render" =>
        \A i \in 1..Len(DynamicWalls) :
            colliderect(bounding(DynamicWalls[i]), ExpandedViewport)
                <=> Count(ret.walls, translated(DynamicWalls[i], ret.offset)) >= 1

\* the light, at the offset of the render, is inside the local expanded viewport of a
\* render over the lights ls
InsideLocalViewport(l, ls, offset) ==
    LET r == _get_max_light_radius(ls)
        x == l.position[1] - offset[1]
        y == l.position[2] - offset[2]
    IN  /\ -r <= x /\ x < ViewSize[1] + r
        /\ -r <= y /\ y < ViewSize[2] + r

\* C14: a render leaves the static wall list, the chunk index, the dynamic groups, both
\* id counters and the keys of the lights as they were; each light inside the local
\* expanded viewport is updated once (Light.update, timer + 1), and each light outside
\* it is unchanged.
C14_RenderFrame ==
    [][(ret'.op = "render" /\ calls' # calls) =>
          /\ UNCHANGED <<walls, chunk_walls, dynamic_walls, dynamic_wall_id, light_id>>
          /\ Len(lights') = Len(lights)
          /\ \A i \in 1..Len(lights) :
                /\ lights'[i][1] = lights[i][1]
                /\ IF InsideLocalViewport(lights[i][2], lights, ret'.offset)
                   THEN /\ lights'[i][2].timer = lights[i][2].timer + 1
                        /\ lights'[i][2] \in update(lights[i][2])
                   ELSE lights'[i][2] = lights[i][2]]_vars

\* a render with one light inside the expanded viewport, updated, and one outside it, as
\* add_light stored it
C14_Witness ==
    /\ ret.op = "render" /\ ret.offset = <<0, 0>>
    /\ Len(lights) = 2
    /\ lights[1][2].position = <<100, 40>> /\ lights[1][2].timer = 2
    /\ lights[2][2] \in LightInputs /\ lights[2][2].position = <<300, 40>>

----------------------------------------------------------------------------
(* Claims about ids (SpecIds) *)

\* int(id)
int(id) == CHOOSE n \in 0..(MaxCalls + 1) : ToString(n) = id

\* C5: an id add_light or add_dynamic_walls returns is greater than every id it returned
\* before, and names no light or group present before the call.
C5_IdsNeverReused ==
    [][/\ (minted'.lights # minted.lights) =>
             /\ \A k \in 1..Len(minted.lights) : int(ret'.id) > int(minted.lights[k])
             /\ ~DictHas(lights, ret'.id)
       /\ (minted'.groups # minted.groups) =>
             /\ \A k \in 1..Len(minted.groups) : int(ret'.id) > int(minted.groups[k])
             /\ ~DictHas(dynamic_walls, ret'.id)]_vars

\* C6: a call of get_light, delete_light, update_dynamic_walls or delete_dynamic_walls
\* with an id that is not a key raises KeyError and leaves the maps and counters alone.
C6_UnknownIdRaises ==
    [][(/\ calls' # calls
        /\ \/ ret'.op \in {"get_light", "delete_light"} /\ ~DictHas(lights, ret'.id)
           \/ ret'.op \in {"update_dynamic_walls", "delete_dynamic_walls"}
                /\ ~DictHas(dynamic_walls, ret'.id))
          => /\ ret'.raised = "KeyError"
             /\ UNCHANGED <<lights, dynamic_walls, light_id, dynamic_wall_id>>]_vars

----------------------------------------------------------------------------
(* Claims about generate_walls (SpecGen) *)

TilesOf(map_data) == {map_data[i] : i \in 1..Len(map_data)}
SetMin(S) == CHOOSE n \in S : \A m \in S : n <= m
SetMax(S) == CHOOSE n \in S : \A m \in S : n >= m
\* the tiles listed are a full rectangle of the grid
IsBlock(map_data) ==
    /\ map_data # <<>>
    /\ LET xs == {t[1] : t \in TilesOf(map_data)}
           ys == {t[2] : t \in TilesOf(map_data)}
       IN  TilesOf(map_data) = (SetMin(xs)..SetMax(xs)) \X (SetMin(ys)..SetMax(ys))
\* the walls of the result with the facing, lying on the line pos of their face axis, from
\* lo to hi along it or, trimmed by one pixel, to hi - 1
SideWalls(result, vertical, direction, pos, lo, hi) ==
    LET f == vertical + 1
        a == 2 - vertical
    IN  {i \in 1..Len(result) :
            /\ result[i].vertical = vertical /\ result[i].direction = direction
            /\ result[i].p1[f] = pos /\ result[i].p2[f] = pos
            /\ Min(result[i].p1[a], result[i].p2[a]) = lo
            /\ Max(result[i].p1[a], result[i].p2[a]) \in {hi - 1, hi}}

\* C12: for a map that is a w x h block of air tiles, generate_walls returns 4 walls, one
\* per side of the block: each lies on its side's line (the left and top ones moved in by
\* one pixel) and spans the side, up to one pixel trimmed at its far end; for a single tile
\* each wall is tile_size long.
C12_BlockHasFourWalls ==
    (call.op = "generate_walls" /\ IsBlock(call.map_data)) =>
        LET ts == call.tile_size
            xs == {t[1] : t \in TilesOf(call.map_data)}
            ys == {t[2] : t \in TilesOf(call.map_data)}
            X0 == SetMin(xs) * ts
            X1 == (SetMax(xs) + 1) * ts
            Y0 == SetMin(ys) * ts
            Y1 == (SetMax(ys) + 1) * ts
            r == call.result
        IN  /\ call.raised = "nothing"
            /\ Len(r) = 4
            /\ Cardinality(SideWalls(r, 0, 1, X0 - 1, Y0, Y1)) = 1
            /\ Cardinality(SideWalls(r, 0, -1, X1, Y0, Y1)) = 1
            /\ Cardinality(SideWalls(r, 1, 1, Y0 - 1, X0, X1)) = 1
            /\ Cardinality(SideWalls(r, 1, -1, Y1, X0, X1)) = 1
            /\ Len(call.map_data) = 1 =>
                  \A i \in 1..4 : Abs(r[i].p2[1] - r[i].p1[1]) + Abs(r[i].p2[2] - r[i].p1[2]) = ts

\* the 3 x 2 block: every side is merged from more than one tile
C12_Witness ==
    /\ call.op = "generate_walls"
    /\ call.map_data = BlockMap(0, 0, 3, 2) /\ call.tile_size = 2
    /\ Len(call.lines) = 10 /\ Len(call.result) = 4

WallList(result) ==
    {<<result[i].p1, result[i].p2, result[i].vertical, result[i].direction>> :
        i \in 1..Len(result)}

\* C13 as stated: for the 3 x 3 map with the centre solid and tile size 10, exactly 4
\* walls, those around the centre tile.
C13_FourWalls ==
    (call.op = "generate_walls" /\ call.map_data = Map3x3 /\ call.tile_size = 10) =>
        /\ Len(call.result) = 4
        /\ \A i \in 1..Len(call.result) :
              \A p \in {call.result[i].p1, call.result[i].p2} :
                  p[1] \in 9..20 /\ p[2] \in 9..20

\* C13, amended: 8 walls, the 4 around the centre tile and the 4 sides of the 3 x 3 block
\* (every position that map_data does not list is solid).
C13_EightWalls ==
    (call.op = "generate_walls" /\ call.map_data = Map3x3 /\ call.tile_size = 10) =>
        /\ call.raised = "nothing"
        /\ Len(call.result) = 8
        /\ WallList(call.result) =
              {<<<<10, 10>>, <<19, 10>>, 1, -1>>, <<<<10, 19>>, <<19, 19>>, 1, 1>>,
               <<<<10, 10>>, <<10, 19>>, 0, -1>>, <<<<19, 10>>, <<19, 19>>, 0, 1>>,
               <<<<-1, 0>>, <<-1, 29>>, 0, 1>>, <<<<30, 0>>, <<30, 29>>, 0, -1>>,
               <<<<0, -1>>, <<29, -1>>, 1, 1>>, <<<<0, 30>>, <<29, 30>>, 1, -1>>}

C13_Witness ==
    /\ call.op = "generate_walls" /\ call.map_data = Map3x3 /\ call.tile_size = 10
    /\ Len(call.lines) = 16
    /\ Len(walls) = 8

\* the sides of air tiles whose neighbour is not air, as [p1, p2, [vertical, direction]]
BoundarySegments(map_data, ts) ==
    LET air == TilesOf(map_data)
    IN  {<<<<(t[1] + 1) * ts, t[2] * ts>>, <<(t[1] + 1) * ts, (t[2] + 1) * ts>>, <<0, -1>>>> :
            t \in {u \in air : <<u[1] + 1, u[2]>> \notin air}}
        \cup {<<<<t[1] * ts, t[2] * ts>>, <<t[1] * ts, (t[2] + 1) * ts>>, <<0, 1>>>> :
            t \in {u \in air : <<u[1] - 1, u[2]>> \notin air}}
        \cup {<<<<t[1] * ts, (t[2] + 1) * ts>>, <<(t[1] + 1) * ts, (t[2] + 1) * ts>>, <<1, -1>>>> :
            t \in {u \in air : <<u[1], u[2] + 1>> \notin air}}
        \cup {<<<<t[1] * ts, t[2] * ts>>, <<(t[1] + 1) * ts, t[2] * ts>>, <<1, 1>>>> :
            t \in {u \in air : <<u[1], u[2] - 1>> \notin air}}
\* the merged wall [p1, p2, vertical, direction] covers the segment
Covers(m, seg) ==
    LET a == 2 - m[3]
        f == m[3] + 1
    IN  /\ <<m[3], m[4]>> = seg[3]
        /\ seg[1][f] = m[1][f] /\ seg[2][f] = m[1][f] /\ m[2][f] = m[1][f]
        /\ Min(m[1][a], m[2][a]) <= seg[1][a]
        /\ seg[2][a] <= Max(m[1][a], m[2][a])

\* C17: for a list of different air tiles the chain walk ends without a fault, and before
\* the correction every boundary segment is covered by exactly one merged wall, every
\* merged wall is made of boundary segments of its facing from end to end, and no two
\* merged walls of the same facing share an endpoint.
C17_MergedChains ==
    call.op = "generate_walls" =>
        LET ts == call.tile_size
            segs == BoundarySegments(call.map_data, ts)
            m == call.merged
        IN  /\ call.raised = "nothing"
            /\ {call.lines[i] : i \in 1..Len(call.lines)} = segs
            /\ Len(call.lines) = Cardinality(segs)
            /\ \A seg \in segs : Cardinality({i \in 1..Len(m) : Covers(m[i], seg)}) = 1
            /\ \A i \in 1..Len(m) :
                  LET a == 2 - m[i][3]
                      lo == Min(m[i][1][a], m[i][2][a])
                      hi == Max(m[i][1][a], m[i][2][a])
                  IN  /\ hi > lo /\ (hi - lo) % ts = 0
                      /\ \A k \in 0..((hi - lo) \div ts - 1) :
                            \E seg \in segs :
                                /\ Covers(m[i], seg)
                                /\ seg[1][a] = lo + k * ts /\ seg[2][a] = lo + (k + 1) * ts
            /\ \A i, j \in 1..Len(m) :
                  (i # j /\ m[i][3] = m[j][3] /\ m[i][4] = m[j][4])
                      => {m[i][1], m[i][2]} \cap {m[j][1], m[j][2]} = {}

\* an L of three tiles listed out of order: chains of two segments and corners where
\* walls of different facings meet
C17_Witness ==
    /\ call.op = "generate_walls"
    /\ call.map_data = <<<<1, 1>>, <<0, 0>>, <<0, 1>>>>
    /\ Len(call.lines) = 8 /\ Len(call.merged) = 6

\* the tiles of the list row by row, as load_map lists them
RowMajor(map_data) ==
    LET air == TilesOf(map_data)
        before(t) == {u \in air : u[2] < t[2] \/ (u[2] = t[2] /\ u[1] < t[1])}
    IN  [k \in 1..Cardinality(air) |-> CHOOSE t \in air : Cardinality(before(t)) = k - 1]

\* C18: the walls generate_walls returns for a list of air tiles are the walls it returns
\* for the same tiles listed row by row, and p1 is the lower end of each.
C18_OrderIndependent ==
    call.op = "generate_walls" =>
        /\ WallList(call.result)
              = WallList(generate_walls(RowMajor(call.map_data), call.tile_size).result)
        /\ \A i \in 1..Len(call.result) :
              /\ call.result[i].p1[1] <= call.result[i].p2[1]
              /\ call.result[i].p1[2] <= call.result[i].p2[2]

====
